---- MODULE Spec2Model ----
(***************************************************************************)
(* ft_logging: a colorized console logger with context-value extraction.   *)
(*                                                                         *)
(* Text is modelled as a sequence of chunks.  A chunk is one character or  *)
(* a run of ordinary characters; the characters % { } [ ] = , and the      *)
(* space that follows a comma are always chunks of their own, so that the  *)
(* formatting verbs and the braces of a line can be told apart from the    *)
(* text around them.                                                       *)
(*                                                                         *)
(* The sink holds one record per Write call made on the output of the      *)
(* standard logger.  A record is the text handed to the standard logger;   *)
(* the header (date, time) and the line terminator the standard logger     *)
(* adds depend on its flags, which this package never sets.                *)
(***************************************************************************)
EXTENDS Integers, Sequences, FiniteSets, TLC

VARIABLES heap, loggers, sink, hist, pc, frame

vars == <<heap, loggers, sink, hist, pc, frame>>

(***************************************************************************)
(* Bounds of the model.                                                    *)
(***************************************************************************)
NumProcs == 2
MaxKeys == 2
MaxCtxLen == 2
MaxSink == 3

Procs == 1..NumProcs

(***************************************************************************)
(* Program constants: the ANSI color codes.                                *)
(***************************************************************************)
colorReset == <<"\\033", "[", "0", "m">>
colorRed == <<"\\033", "[", "3", "1", "m">>
colorGreen == <<"\\033", "[", "3", "2", "m">>
colorWhite == <<"\\033", "[", "3", "7", "m">>

(***************************************************************************)
(* Values of type any.  Nil is the nil interface value.                    *)
(***************************************************************************)
Nil == [kind |-> "nil"]
StrVal(t) == [kind |-> "string", s |-> t]
IntVal(n) == [kind |-> "int", n |-> n]

(***************************************************************************)
(* Inputs.                                                                 *)
(***************************************************************************)
KeyNames == {<<"request_id">>, <<"user_id">>}

SeqsUpTo(S, n) == UNION {[1..m -> S] : m \in 0..n}

KeyLists == SeqsUpTo(KeyNames, MaxKeys)

Messages == {<<"test message">>, <<"{", "%", "s", "}">>}

CtxEntries ==
    { [key |-> <<"request_id">>, val |-> StrVal(<<"abc123">>)],
      [key |-> <<"request_id">>, val |-> StrVal(<<>>)],
      [key |-> <<"user_id">>, val |-> IntVal(42)],
      [key |-> <<"user_id">>, val |-> Nil] }

\* A context.Context: the nil interface value, or a chain of WithValue
\* entries over context.Background(), outermost first.
NilCtx == [isNil |-> TRUE, chain |-> <<>>]

Background == [isNil |-> FALSE, chain |-> <<>>]

\* context.WithValue: a new context whose innermost entry is key -> val.
WithValue(parent, key, val) ==
    [isNil |-> FALSE, chain |-> Append(parent.chain, [key |-> key, val |-> val])]

RECURSIVE ContextsOver(_)
ContextsOver(n) ==
    IF n = 0 THEN {Background}
    ELSE LET shorter == ContextsOver(n - 1)
         IN  shorter \cup {WithValue(c, e.key, e.val) : c \in shorter, e \in CtxEntries}

Contexts == {NilCtx} \cup ContextsOver(MaxCtxLen)

\* ctx.Value(key): the innermost entry of the chain with that key, else nil.
RECURSIVE lookup(_, _)
lookup(chain, key) ==
    IF chain = <<>> THEN Nil
    ELSE IF chain[Len(chain)].key = key THEN chain[Len(chain)].val
    ELSE lookup(SubSeq(chain, 1, Len(chain) - 1), key)

\* A method call on the nil interface value panics.
Panic == [kind |-> "panic"]

Value(ctx, key) == IF ctx.isNil THEN Panic ELSE lookup(ctx.chain, key)

(***************************************************************************)
(* fmt.Sprintf, for the verbs %s and %v the package uses.                  *)
(***************************************************************************)
DecimalDigit == <<"0", "1", "2", "3", "4", "5", "6", "7", "8", "9">>

RECURSIVE Digits(_)
Digits(n) ==
    IF n < 0 THEN <<"-">> \o Digits(0 - n)
    ELSE IF n < 10 THEN <<DecimalDigit[n + 1]>>
    ELSE Digits(n \div 10) \o <<DecimalDigit[(n % 10) + 1]>>

\* One operand printed under one verb.
formatVerb(verb, arg) ==
    CASE arg.kind = "string" -> arg.s
      [] arg.kind = "int" ->
            IF verb = "v" THEN Digits(arg.n)
            ELSE <<"%", "!", verb, "(int=">> \o Digits(arg.n) \o <<")">>
      [] OTHER ->
            IF verb = "v" THEN <<"<nil>">>
            ELSE <<"%", "!", verb, "(<nil>)">>

RECURSIVE Sprintf(_, _)
Sprintf(format, a) ==
    IF format = <<>>
    THEN IF a = <<>> THEN <<>> ELSE <<"%", "!", "(EXTRA)">>
    ELSE IF format[1] = "%" /\ Len(format) >= 2 /\ format[2] \in {"s", "v"}
         THEN (IF a = <<>> THEN <<"%", "!", format[2], "(MISSING)">>
                           ELSE formatVerb(format[2], a[1]))
              \o Sprintf(SubSeq(format, 3, Len(format)),
                         IF a = <<>> THEN a ELSE Tail(a))
         ELSE <<format[1]>> \o Sprintf(Tail(format), a)

(***************************************************************************)
(* Slices.  A slice is a view [arr, len] of a backing array of the heap;   *)
(* the nil slice has no backing array.  A Service stores the slice it was  *)
(* given, so it shares the backing array with the caller.                  *)
(***************************************************************************)
NilSlice == [arr |-> 0, len |-> 0]

Elems(slice) ==
    IF slice.arr = 0 THEN <<>> ELSE SubSeq(heap[slice.arr], 1, slice.len)

(***************************************************************************)
(* extractContextInfo                                                      *)
(***************************************************************************)
\* rangeContextKeys with every new part put in front of the parts.
RECURSIVE rangeContextKeysPrepend(_, _, _, _)
rangeContextKeysPrepend(keys, i, ctx, parts) ==
    IF i > Len(keys) THEN parts
    ELSE LET key == keys[i]
             value == Value(ctx, key)
         IN  IF value # Nil
             THEN rangeContextKeysPrepend(keys, i + 1, ctx,
                      <<Sprintf(<<"%", "s", "=", "%", "v">>, <<StrVal(key), value>>)>>
                          \o parts)
             ELSE rangeContextKeysPrepend(keys, i + 1, ctx, parts)

\* rangeContextKeys without the test value != nil.
RECURSIVE rangeContextKeysNoNilTest(_, _, _, _)
rangeContextKeysNoNilTest(keys, i, ctx, parts) ==
    IF i > Len(keys) THEN parts
    ELSE rangeContextKeysNoNilTest(keys, i + 1, ctx,
             Append(parts, Sprintf(<<"%", "s", "=", "%", "v">>,
                                   <<StrVal(keys[i]), Value(ctx, keys[i])>>)))

\* rangeContextKeys that also skips a value printed as the empty string.
RECURSIVE rangeContextKeysSkipEmpty(_, _, _, _)
rangeContextKeysSkipEmpty(keys, i, ctx, parts) ==
    IF i > Len(keys) THEN parts
    ELSE LET key == keys[i]
             value == Value(ctx, key)
         IN  IF value # Nil /\ formatVerb("v", value) # <<>>
             THEN rangeContextKeysSkipEmpty(keys, i + 1, ctx,
                      Append(parts, Sprintf(<<"%", "s", "=", "%", "v">>,
                                            <<StrVal(key), value>>)))
             ELSE rangeContextKeysSkipEmpty(keys, i + 1, ctx, parts)

\* rangeContextKeys that skips a key it has met before in the key list.
RECURSIVE rangeContextKeysOncePerKey(_, _, _, _)
rangeContextKeysOncePerKey(keys, i, ctx, parts) ==
    IF i > Len(keys) THEN parts
    ELSE LET key == keys[i]
             value == Value(ctx, key)
         IN  IF value # Nil /\ \A j \in 1..(i - 1) : keys[j] # key
             THEN rangeContextKeysOncePerKey(keys, i + 1, ctx,
                      Append(parts, Sprintf(<<"%", "s", "=", "%", "v">>,
                                            <<StrVal(key), value>>)))
             ELSE rangeContextKeysOncePerKey(keys, i + 1, ctx, parts)

\* The first loop: parts collects key=value for every key with a value.
RECURSIVE rangeContextKeys(_, _, _, _)
rangeContextKeys(keys, i, ctx, parts) ==
    IF i > Len(keys) THEN parts
    ELSE LET key == keys[i]
             value == Value(ctx, key)
         IN  IF value # Nil
             THEN rangeContextKeys(keys, i + 1, ctx,
                      Append(parts, Sprintf(<<"%", "s", "=", "%", "v">>,
                                            <<StrVal(key), value>>)))
             ELSE rangeContextKeys(keys, i + 1, ctx, parts)

\* The second loop: result joins the parts with ", ".
RECURSIVE rangeParts(_, _, _)
rangeParts(parts, i, result) ==
    IF i > Len(parts) THEN result
    ELSE rangeParts(parts, i + 1,
                    (IF i > 1 THEN result \o <<",", " ">> ELSE result) \o parts[i])

\* noExtraction without the test ctx == nil.
noExtractionNoNilTest(contextKeys, ctx) == Len(contextKeys) = 0

\* The guard of extractContextInfo: TRUE when it returns "" at once.
noExtraction(contextKeys, ctx) == ctx = NilCtx \/ Len(contextKeys) = 0

\* The call panics when ctx.Value is reached with the nil context.
panics(contextKeys, ctx) == ~noExtraction(contextKeys, ctx) /\ ctx.isNil

extractContextInfo(contextKeys, ctx) ==
    IF noExtraction(contextKeys, ctx) THEN <<>>
    ELSE LET parts == rangeContextKeys(contextKeys, 1, ctx, <<>>)
         IN  IF Len(parts) = 0 THEN <<>>
             ELSE rangeParts(parts, 1, <<>>)

(***************************************************************************)
(* Variants of LogWithColor with one slip each.                            *)
(***************************************************************************)
\* The context part is formatted whether or not anything was extracted.
LogWithColorAlwaysBraces(contextKeys, ctx, color, level, message) ==
    LET contextInfo == extractContextInfo(contextKeys, ctx)
        contextPart == Sprintf(<<" ", "{", "%", "s", "}">>, <<StrVal(contextInfo)>>)
    IN  Sprintf(<<"%", "s", "[", "%", "s", "]", "%", "s", " ", "%", "s", "%", "s">>,
                <<StrVal(color), StrVal(level), StrVal(colorReset), StrVal(message),
                  StrVal(contextPart)>>)

\* The context part is formatted without its leading space.
LogWithColorNoSpace(contextKeys, ctx, color, level, message) ==
    LET contextInfo == extractContextInfo(contextKeys, ctx)
        contextPart == IF contextInfo # <<>>
                       THEN Sprintf(<<"{", "%", "s", "}">>, <<StrVal(contextInfo)>>)
                       ELSE <<>>
    IN  Sprintf(<<"%", "s", "[", "%", "s", "]", "%", "s", " ", "%", "s", "%", "s">>,
                <<StrVal(color), StrVal(level), StrVal(colorReset), StrVal(message),
                  StrVal(contextPart)>>)

\* The reset code is put at the end of the line.
LogWithColorResetLast(contextKeys, ctx, color, level, message) ==
    LET contextInfo == extractContextInfo(contextKeys, ctx)
        contextPart == IF contextInfo # <<>>
                       THEN Sprintf(<<" ", "{", "%", "s", "}">>, <<StrVal(contextInfo)>>)
                       ELSE <<>>
    IN  Sprintf(<<"%", "s", "[", "%", "s", "]", " ", "%", "s", "%", "s", "%", "s">>,
                <<StrVal(color), StrVal(level), StrVal(message), StrVal(contextPart),
                  StrVal(colorReset)>>)

\* The line carries the number of records written so far.
LogWithColorNumbered(contextKeys, ctx, color, level, message) ==
    LET contextInfo == extractContextInfo(contextKeys, ctx)
        contextPart == IF contextInfo # <<>>
                       THEN Sprintf(<<" ", "{", "%", "s", "}">>, <<StrVal(contextInfo)>>)
                       ELSE <<>>
    IN  Sprintf(<<"%", "s", "[", "%", "s", "]", "%", "s", " ", "%", "s", "%", "s", "%", "v">>,
                <<StrVal(color), StrVal(level), StrVal(colorReset), StrVal(message),
                  StrVal(contextPart), IntVal(Len(sink))>>)

\* LogWithColor where a line of level ERROR carries no context section.
LogWithColorErrorNoContext(contextKeys, ctx, color, level, message) ==
    LET contextInfo == extractContextInfo(contextKeys, ctx)
        contextPart == IF contextInfo # <<>> /\ level # <<"ERROR">>
                       THEN Sprintf(<<" ", "{", "%", "s", "}">>, <<StrVal(contextInfo)>>)
                       ELSE <<>>
    IN  Sprintf(<<"%", "s", "[", "%", "s", "]", "%", "s", " ", "%", "s", "%", "s">>,
                <<StrVal(color), StrVal(level), StrVal(colorReset), StrVal(message),
                  StrVal(contextPart)>>)

\* LogWithColor where the message is made part of the format.
LogWithColorMessageInFormat(contextKeys, ctx, color, level, message) ==
    LET contextInfo == extractContextInfo(contextKeys, ctx)
        contextPart == IF contextInfo # <<>>
                       THEN Sprintf(<<" ", "{", "%", "s", "}">>, <<StrVal(contextInfo)>>)
                       ELSE <<>>
    IN  Sprintf(<<"%", "s", "[", "%", "s", "]", "%", "s", " ">> \o message
                    \o <<"%", "s">>,
                <<StrVal(color), StrVal(level), StrVal(colorReset),
                  StrVal(contextPart)>>)

(***************************************************************************)
(* LogWithColor: the text handed to log.Print.                             *)
(***************************************************************************)
LogWithColor(contextKeys, ctx, color, level, message) ==
    LET contextInfo == extractContextInfo(contextKeys, ctx)
        contextPart == IF contextInfo # <<>>
                       THEN Sprintf(<<" ", "{", "%", "s", "}">>, <<StrVal(contextInfo)>>)
                       ELSE <<>>
    IN  Sprintf(<<"%", "s", "[", "%", "s", "]", "%", "s", " ", "%", "s", "%", "s">>,
                <<StrVal(color), StrVal(level), StrVal(colorReset), StrVal(message),
                  StrVal(contextPart)>>)

\* rangeKeys that skips a key equal to the one before it.
RECURSIVE rangeKeysSkipRepeated(_, _, _)
rangeKeysSkipRepeated(contextKeys, i, keys) ==
    IF i > Len(contextKeys) THEN keys
    ELSE IF i > 1 /\ contextKeys[i] = contextKeys[i - 1]
         THEN rangeKeysSkipRepeated(contextKeys, i + 1, keys)
         ELSE rangeKeysSkipRepeated(contextKeys, i + 1,
                   (IF i > 1 THEN keys \o <<",", " ">> ELSE keys) \o contextKeys[i])

\* The loop of NewLogger: keys joins the context keys with ", ".
RECURSIVE rangeKeys(_, _, _)
rangeKeys(contextKeys, i, keys) ==
    IF i > Len(contextKeys) THEN keys
    ELSE rangeKeys(contextKeys, i + 1,
                   (IF i > 1 THEN keys \o <<",", " ">> ELSE keys) \o contextKeys[i])

\* The announcement NewLogger hands to log.Printf.
announcement(contextKeys) ==
    IF Len(contextKeys) = 0
    THEN Sprintf(<<"[ft_logging] Initialized with no context extraction">>, <<>>)
    ELSE LET keys == rangeKeys(contextKeys, 1, <<>>)
         IN  Sprintf(<<"[ft_logging] Initialized with context keys: ", "[", "%", "s", "]">>,
                     <<StrVal(keys)>>)

\* The text is written by two Write calls, the context section apart.
logOutputSectionApart(s) ==
    IF s # <<>> /\ s[Len(s)] = "}" /\ (\E j \in 1..Len(s) : s[j] = " " /\ j < Len(s) /\ s[j + 1] = "{")
    THEN LET cut == CHOOSE j \in 1..(Len(s) - 1) :
                        /\ s[j] = " " /\ s[j + 1] = "{"
                        /\ \A j2 \in 1..(Len(s) - 1) :
                              (s[j2] = " " /\ s[j2 + 1] = "{") => j2 <= j
         IN  <<SubSeq(s, 1, cut - 1), SubSeq(s, cut + 1, Len(s))>>
    ELSE <<s>>

\* log.Print / log.Printf: the Write calls made on the sink for one text.
logOutput(s) == <<s>>

(***************************************************************************)
(* The state machine.                                                      *)
(***************************************************************************)
NoFrame == [op |-> "none"]

Init ==
    /\ heap = <<>>
    /\ loggers = <<>>
    /\ sink = <<>>
    /\ hist = <<>>
    /\ pc = [p \in Procs |-> "idle"]
    /\ frame = [p \in Procs |-> NoFrame]

InFlight == Cardinality({p \in Procs : pc[p] # "idle"})

CanEnter(p) == pc[p] = "idle" /\ Len(sink) + InFlight < MaxSink

\* newService that stores a slice of length zero as nil.
newServiceNilIfEmpty(contextKeys) ==
    [contextKeys |-> IF contextKeys.len = 0 THEN NilSlice ELSE contextKeys]

\* service = &Service{contextKeys: contextKeys}
newService(contextKeys) == [contextKeys |-> contextKeys]

\* NewLogger up to the call of log.Printf: the Service is built around the
\* slice that was passed, and the announcement is formatted.
NewLoggerOf(p, slice, heapNow) ==
    /\ heap' = heapNow
    /\ pc' = [pc EXCEPT ![p] = "Printf"]
    /\ frame' = [frame EXCEPT ![p] =
                    [op |-> "NewLogger", passed |-> slice,
                     service |-> newService(slice),
                     keys |-> IF slice.arr = 0 THEN <<>>
                              ELSE SubSeq(heapNow[slice.arr], 1, slice.len),
                     out |-> announcement(IF slice.arr = 0 THEN <<>>
                              ELSE SubSeq(heapNow[slice.arr], 1, slice.len))]]
    /\ UNCHANGED <<loggers, sink, hist>>

\* NewLogger(nil)
NewLoggerNil(p) ==
    /\ CanEnter(p)
    /\ NewLoggerOf(p, NilSlice, heap)

\* NewLogger(keys) for a slice the caller has just made.
NewLogger(p, ks) ==
    /\ CanEnter(p)
    /\ NewLoggerOf(p, [arr |-> Len(heap) + 1, len |-> Len(ks)], Append(heap, ks))

\* log.Printf in NewLogger, and the return of the Service.
NewLoggerReturn(p) ==
    /\ pc[p] = "Printf"
    /\ sink' = sink \o logOutput(frame[p].out)
    /\ loggers' = Append(loggers, frame[p].service)
    /\ hist' = Append(hist, [op |-> "NewLogger", passed |-> frame[p].passed,
                             service |-> frame[p].service,
                             keys |-> frame[p].keys])
    /\ pc' = [pc EXCEPT ![p] = "idle"]
    /\ frame' = [frame EXCEPT ![p] = NoFrame]
    /\ UNCHANGED heap

\* callLogWithColor where the extraction collects its parts in the array of
\* the configured keys (parts = s.contextKeys[:0]) and so overwrites them.
callLogWithColorInPlace(p, op, l, ctx, message, color, level) ==
    /\ CanEnter(p)
    /\ pc' = [pc EXCEPT ![p] =
                 IF panics(Elems(loggers[l].contextKeys), ctx) THEN "panic"
                 ELSE "Print"]
    /\ frame' = [frame EXCEPT ![p] =
                    [op |-> op, logger |-> l,
                     keys |-> Elems(loggers[l].contextKeys),
                     ctx |-> ctx, message |-> message,
                     out |-> IF panics(Elems(loggers[l].contextKeys), ctx) THEN <<>>
                             ELSE LogWithColor(Elems(loggers[l].contextKeys), ctx,
                                               color, level, message)]]
    /\ heap' = IF noExtraction(Elems(loggers[l].contextKeys), ctx)
               THEN heap
               ELSE LET a == loggers[l].contextKeys.arr
                        parts == rangeContextKeys(Elems(loggers[l].contextKeys), 1,
                                                  ctx, <<>>)
                    IN  [heap EXCEPT ![a] =
                            [j \in 1..Len(heap[a]) |->
                                IF j <= Len(parts) THEN parts[j] ELSE heap[a][j]]]
    /\ UNCHANGED <<loggers, sink, hist>>

\* A severity method up to the call of log.Print: LogWithColor extracts and
\* formats; a panic in the extraction ends the call without a write.
callLogWithColor(p, op, l, ctx, message, color, level) ==
    /\ CanEnter(p)
    /\ pc' = [pc EXCEPT ![p] =
                 IF panics(Elems(loggers[l].contextKeys), ctx) THEN "panic"
                 ELSE "Print"]
    /\ frame' = [frame EXCEPT ![p] =
                    [op |-> op, logger |-> l,
                     keys |-> Elems(loggers[l].contextKeys),
                     ctx |-> ctx, message |-> message,
                     out |-> IF panics(Elems(loggers[l].contextKeys), ctx) THEN <<>>
                             ELSE LogWithColor(Elems(loggers[l].contextKeys), ctx,
                                               color, level, message)]]
    /\ UNCHANGED <<heap, loggers, sink, hist>>

Info(p, l, ctx, message) ==
    callLogWithColor(p, "Info", l, ctx, message, colorWhite, <<"INFO">>)

Success(p, l, ctx, message) ==
    callLogWithColor(p, "Success", l, ctx, message, colorGreen, <<"SUCCESS">>)

Error(p, l, ctx, message) ==
    callLogWithColor(p, "Error", l, ctx, message, colorRed, <<"ERROR">>)

\* LogPrint where the formatted line is kept in a buffer the callers share:
\* the line written is that of the caller that formatted last.
LogPrintSharedBuffer(p) ==
    /\ pc[p] = "Print"
    /\ sink' = sink \o logOutput(frame[CHOOSE q \in Procs :
                                          /\ pc[q] = "Print"
                                          /\ \A r \in Procs : pc[r] = "Print" => r <= q].out)
    /\ hist' = Append(hist, [op |-> frame[p].op, logger |-> frame[p].logger,
                             keys |-> frame[p].keys, ctx |-> frame[p].ctx,
                             message |-> frame[p].message])
    /\ pc' = [pc EXCEPT ![p] = "idle"]
    /\ frame' = [frame EXCEPT ![p] = NoFrame]
    /\ UNCHANGED <<heap, loggers>>

\* LogPrint where the line is left to a writer that runs later: the call
\* returns with its line not yet in the sink.
LogPrintDeferred(p) ==
    /\ pc[p] = "Print"
    /\ hist' = Append(hist, [op |-> frame[p].op,
                             logger |-> frame[p].logger,
                             keys |-> frame[p].keys, ctx |-> frame[p].ctx,
                             message |-> frame[p].message])
    /\ pc' = [pc EXCEPT ![p] = "idle"]
    /\ frame' = [frame EXCEPT ![p] = NoFrame]
    /\ UNCHANGED <<heap, loggers, sink>>

\* log.Print in LogWithColor, and the return of the call.
LogPrint(p) ==
    /\ pc[p] = "Print"
    /\ sink' = sink \o logOutput(frame[p].out)
    /\ hist' = Append(hist, [op |-> frame[p].op,
                             logger |-> frame[p].logger,
                             keys |-> frame[p].keys, ctx |-> frame[p].ctx,
                             message |-> frame[p].message])
    /\ pc' = [pc EXCEPT ![p] = "idle"]
    /\ frame' = [frame EXCEPT ![p] = NoFrame]
    /\ UNCHANGED <<heap, loggers>>

Next ==
    \/ \E p \in Procs : NewLoggerNil(p)
    \/ \E p \in Procs, ks \in KeyLists : NewLogger(p, ks)
    \/ \E p \in Procs : NewLoggerReturn(p)
    \/ \E p \in Procs, l \in 1..Len(loggers), ctx \in Contexts, m \in Messages :
          Info(p, l, ctx, m)
    \/ \E p \in Procs, l \in 1..Len(loggers), ctx \in Contexts, m \in Messages :
          Success(p, l, ctx, m)
    \/ \E p \in Procs, l \in 1..Len(loggers), ctx \in Contexts, m \in Messages :
          Error(p, l, ctx, m)
    \/ \E p \in Procs : LogPrint(p)

Spec == Init /\ [][Next]_vars

(***************************************************************************)
(* The caller keeps the slice it passed to NewLogger, and the Service      *)
(* holds the same backing array.  SpecCaller adds the caller's stores into *)
(* that array, between calls (a store during a call would be a data race   *)
(* in the caller), and at most one store per array.  Its logging calls     *)
(* take contexts of at most one entry.                                     *)
(***************************************************************************)
\* The record of the construction that returned logger l.
ConstructionOf(l) ==
    CHOOSE i \in 1..Len(hist) :
        /\ hist[i].op = "NewLogger"
        /\ Cardinality({j \in 1..i : hist[j].op = "NewLogger"}) = l

\* keys[i] = k, on the slice the caller passed to NewLogger.
CallerSetsKey(a, i, k) ==
    /\ \A p \in Procs : pc[p] = "idle"
    /\ \E l \in 1..Len(loggers) :
          /\ loggers[l].contextKeys.arr = a
          /\ hist[ConstructionOf(l)].keys = heap[a]
    /\ heap[a][i] # k
    /\ heap' = [heap EXCEPT ![a][i] = k]
    /\ UNCHANGED <<loggers, sink, hist, pc, frame>>

CallerContexts == {c \in Contexts : Len(c.chain) <= 1}

NextCaller ==
    \/ \E p \in Procs, ks \in KeyLists : NewLogger(p, ks)
    \/ \E p \in Procs : NewLoggerReturn(p)
    \/ \E p \in Procs, l \in 1..Len(loggers), ctx \in CallerContexts, m \in Messages :
          Info(p, l, ctx, m)
    \/ \E p \in Procs, l \in 1..Len(loggers), ctx \in CallerContexts, m \in Messages :
          Success(p, l, ctx, m)
    \/ \E p \in Procs, l \in 1..Len(loggers), ctx \in CallerContexts, m \in Messages :
          Error(p, l, ctx, m)
    \/ \E p \in Procs : LogPrint(p)
    \/ \E a \in 1..Len(heap) : \E i \in 1..Len(heap[a]), k \in KeyNames :
          CallerSetsKey(a, i, k)

SpecCaller == Init /\ [][NextCaller]_vars

(***************************************************************************)
(* What the specification says of a call, stated without the code's loops. *)
(***************************************************************************)
(***************************************************************************)
(* The callers of the tests of the messages: the message is any text, the  *)
(* empty one and texts that look like formats included; key lists of at    *)
(* most one key and contexts of at most one value.                         *)
(***************************************************************************)
OpaqueMessages ==
    {<<>>, <<"%", "s">>, <<"[", "%", "v", "]">>, <<"{", "user_id", "=", "%", "s", "}">>}

NextMessages ==
    \/ \E p \in Procs : NewLoggerNil(p)
    \/ \E p \in Procs, ks \in {k \in KeyLists : Len(k) = 1} : NewLogger(p, ks)
    \/ \E p \in Procs : NewLoggerReturn(p)
    \/ \E p \in Procs, l \in 1..Len(loggers), ctx \in CallerContexts,
          m \in OpaqueMessages : Info(p, l, ctx, m)
    \/ \E p \in Procs, l \in 1..Len(loggers), ctx \in CallerContexts,
          m \in OpaqueMessages : Success(p, l, ctx, m)
    \/ \E p \in Procs, l \in 1..Len(loggers), ctx \in CallerContexts,
          m \in OpaqueMessages : Error(p, l, ctx, m)
    \/ \E p \in Procs : LogPrint(p)

SpecMessages == Init /\ [][NextMessages]_vars

IsLog(h) == h.op \in {"Info", "Success", "Error"}

Range(f) == {f[i] : i \in DOMAIN f}

ColorOf(op) ==
    CASE op = "Info" -> colorWhite
      [] op = "Success" -> colorGreen
      [] op = "Error" -> colorRed

LabelOf(op) ==
    CASE op = "Info" -> <<"INFO">>
      [] op = "Success" -> <<"SUCCESS">>
      [] op = "Error" -> <<"ERROR">>

\* <color>[<LEVEL>]<reset> <message>
Base(h) ==
    ColorOf(h.op) \o <<"[">> \o LabelOf(h.op) \o <<"]">> \o colorReset
        \o <<" ">> \o h.message

\* The value the context associates with k: that of the entry added last.
ValueOf(C, k) ==
    LET at == {j \in 1..Len(C.chain) : C.chain[j].key = k}
    IN  IF C.isNil \/ at = {} THEN Nil
        ELSE C.chain[CHOOSE j \in at : \A j2 \in at : j2 <= j].val

Resolves(C, k) == ValueOf(C, k) # Nil

Rendered(v) == IF v.kind = "string" THEN v.s ELSE Digits(v.n)

RECURSIVE JoinWith(_, _)
JoinWith(texts, sep) ==
    IF texts = <<>> THEN <<>>
    ELSE IF Len(texts) = 1 THEN texts[1]
    ELSE texts[1] \o sep \o JoinWith(Tail(texts), sep)

\* The pairs k=v of the keys of K that resolve in C, in the order of K.
RECURSIVE ExpectedPairs(_, _)
ExpectedPairs(K, C) ==
    IF K = <<>> THEN <<>>
    ELSE (IF Resolves(C, K[1])
          THEN <<K[1] \o <<"=">> \o Rendered(ValueOf(C, K[1]))>>
          ELSE <<>>)
         \o ExpectedPairs(Tail(K), C)

ExpectedSection(K, C) == JoinWith(ExpectedPairs(K, C), <<",", " ">>)

\* What record i of the sink holds after the message of call i.
AfterMessage(i) == SubSeq(sink[i], Len(Base(hist[i])) + 1, Len(sink[i]))

\* The text between the braces of a context section.
Inside(section) == SubSeq(section, 3, Len(section) - 1)

Count(chunk, text) == Cardinality({j \in 1..Len(text) : text[j] = chunk})

\* The completed logging calls, by their position in the sink.
LogCalls == {i \in 1..Len(hist) : IsLog(hist[i])}

(***************************************************************************)
(* C1: for every key list K and non-nil context C, the context section of  *)
(* the line holds exactly the pairs key=value of the keys of K whose       *)
(* lookup in C is non-nil, in the order of K, joined by ", "; a key of K   *)
(* without a value and a key of C outside K never appear.                  *)
(***************************************************************************)
C1_ContextSectionIsConfiguredPairs ==
    \A i \in LogCalls :
        ~hist[i].ctx.isNil =>
            /\ i <= Len(sink)
            /\ LET section == AfterMessage(i)
                   expected == ExpectedSection(hist[i].keys, hist[i].ctx)
               IN  /\ Inside(section) = expected
                   /\ \A k \in KeyNames :
                        Count(k[1], section) =
                            Cardinality({j \in 1..Len(hist[i].keys) :
                                            /\ hist[i].keys[j] = k
                                            /\ Resolves(hist[i].ctx, k)})

\* Keys configured user_id then request_id, values added request_id then
\* user_id: the section follows the configured order.
C1_Witness ==
    \E i \in LogCalls :
        /\ hist[i].keys = <<<<"user_id">>, <<"request_id">>>>
        /\ hist[i].ctx.chain =
              <<[key |-> <<"request_id">>, val |-> StrVal(<<"abc123">>)],
                [key |-> <<"user_id">>, val |-> IntVal(42)]>>
        /\ AfterMessage(i) = <<" ", "{", "user_id", "=", "4", "2", ",", " ",
                               "request_id", "=", "abc123", "}">>

(***************************************************************************)
(* C2: with a non-empty key list and a nil context, no call panics and the *)
(* line written is exactly <color>[<LEVEL>]<reset> <message>.              *)
(***************************************************************************)
C2_NilContextNoSection ==
    /\ \A p \in Procs : pc[p] # "panic"
    /\ \A i \in LogCalls :
          (hist[i].ctx.isNil /\ Len(hist[i].keys) > 0) =>
              i <= Len(sink) /\ sink[i] = Base(hist[i])

C2_Witness ==
    \E i \in LogCalls :
        /\ hist[i].ctx = NilCtx
        /\ hist[i].keys = <<<<"request_id">>>>
        /\ sink[i] = <<"\\033", "[", "3", "7", "m", "[", "INFO", "]",
                       "\\033", "[", "0", "m", " ", "test message">>

(***************************************************************************)
(* C3: a logger built with an empty or a nil key list writes no context    *)
(* section whatever the context holds: nothing follows the message, and    *)
(* the line has a "{" only where the message has one.                      *)
(***************************************************************************)
C3_NoKeysNoSection ==
    \A i \in LogCalls :
        Len(hist[i].keys) = 0 =>
            /\ i <= Len(sink)
            /\ AfterMessage(i) = <<>>
            /\ SubSeq(sink[i], 1, Len(Base(hist[i]))) = Base(hist[i])
            /\ Count("{", sink[i]) = Count("{", hist[i].message)

\* A logger built with nil has logged a context that holds values and a
\* message that holds a brace.
C3_Witness ==
    \E i \in LogCalls :
        /\ loggers[hist[i].logger].contextKeys = NilSlice
        /\ Resolves(hist[i].ctx, <<"request_id">>)
        /\ Resolves(hist[i].ctx, <<"user_id">>)
        /\ sink[i] = <<"\\033", "[", "3", "2", "m", "[", "SUCCESS", "]",
                       "\\033", "[", "0", "m", " ", "{", "%", "s", "}">>

(***************************************************************************)
(* C4: when nothing is extracted (nil context, no configured key, or no    *)
(* configured key resolving) the line is exactly                           *)
(* <color>[<LEVEL>]<reset> <message>, and no line ever carries an empty    *)
(* context section.                                                        *)
(***************************************************************************)
NothingExtracted(h) ==
    \/ h.ctx.isNil
    \/ Len(h.keys) = 0
    \/ \A k \in Range(h.keys) : ~Resolves(h.ctx, k)

C4_EmptyExtractionBareLine ==
    \A i \in LogCalls :
        /\ i <= Len(sink)
        /\ NothingExtracted(hist[i]) => sink[i] = Base(hist[i])
        /\ AfterMessage(i) \notin {<<" ">>, <<"{", "}">>, <<" ", "{", "}">>}

\* Keys are configured and the context holds values, yet none resolves.
C4_Witness ==
    \E i \in LogCalls :
        /\ hist[i].keys = <<<<"user_id">>, <<"user_id">>>>
        /\ hist[i].ctx.chain =
              <<[key |-> <<"user_id">>, val |-> IntVal(42)],
                [key |-> <<"user_id">>, val |-> Nil]>>
        /\ sink[i] = <<"\\033", "[", "3", "1", "m", "[", "ERROR", "]",
                       "\\033", "[", "0", "m", " ", "test message">>

(***************************************************************************)
(* C5: when at least one configured key resolves the line is exactly       *)
(* <color>[<LEVEL>]<reset> <message> {<extracted pairs>}, and a line has a *)
(* context section if and only if something was extracted.                 *)
(***************************************************************************)
C5_SectionIffExtracted ==
    \A i \in LogCalls :
        /\ i <= Len(sink)
        /\ ~NothingExtracted(hist[i]) =>
              sink[i] = Base(hist[i]) \o <<" ", "{">>
                           \o ExpectedSection(hist[i].keys, hist[i].ctx) \o <<"}">>
        /\ (Len(sink[i]) > Len(Base(hist[i]))) <=> ~NothingExtracted(hist[i])

C5_Witness ==
    \E i \in LogCalls :
        /\ hist[i].keys = <<<<"request_id">>, <<"user_id">>>>
        /\ hist[i].message = <<"test message">>
        /\ sink[i] = <<"\\033", "[", "3", "7", "m", "[", "INFO", "]",
                       "\\033", "[", "0", "m", " ", "test message", " ", "{",
                       "request_id", "=", "abc123", ",", " ",
                       "user_id", "=", "4", "2", "}">>

(***************************************************************************)
(* C6: Info emits the white code and [INFO], Success the green code and    *)
(* [SUCCESS], Error the red code and [ERROR]; the reset code comes right   *)
(* after the bracketed tag and before the message, and nowhere else.       *)
(***************************************************************************)
Escape == "\\033"

Constructions == {i \in 1..Len(hist) : hist[i].op = "NewLogger"}

ExpectedAnnouncement(K) ==
    IF Len(K) = 0
    THEN <<"[ft_logging] Initialized with no context extraction">>
    ELSE <<"[ft_logging] Initialized with context keys: ", "[">>
            \o JoinWith(K, <<",", " ">>) \o <<"]">>

IsAnnouncement(line) ==
    /\ line # <<>>
    /\ line[1] \in {"[ft_logging] Initialized with no context extraction",
                    "[ft_logging] Initialized with context keys: "}

C7_OneAnnouncementListingKeys ==
    /\ \A i \in Constructions :
          i <= Len(sink) /\ sink[i] = ExpectedAnnouncement(hist[i].keys)
    /\ Cardinality({i \in 1..Len(sink) : IsAnnouncement(sink[i])})
          = Cardinality(Constructions)

\* One logger built with nil, one with an empty list, one with a repeated key.
C7_Witness ==
    \E i, j, k \in Constructions :
        /\ hist[i].service.contextKeys = NilSlice
        /\ hist[j].service.contextKeys.arr # 0 /\ hist[j].keys = <<>>
        /\ sink[i] = sink[j]
        /\ hist[k].keys = <<<<"user_id">>, <<"user_id">>>>
        /\ sink[k] = <<"[ft_logging] Initialized with context keys: ", "[",
                       "user_id", ",", " ", "user_id", "]">>

(***************************************************************************)
(* C8: two calls of the same operation with the same key list, the same    *)
(* message and contexts that give the same values to the configured keys   *)
(* write identical lines: no call changes what a later call writes.        *)
(***************************************************************************)
C8_SameArgumentsSameLine ==
    \A i, j \in LogCalls :
        ( /\ hist[i].op = hist[j].op
          /\ hist[i].keys = hist[j].keys
          /\ hist[i].message = hist[j].message
          /\ \A k \in Range(hist[i].keys) :
                ValueOf(hist[i].ctx, k) = ValueOf(hist[j].ctx, k) )
        => (i <= Len(sink) /\ j <= Len(sink) /\ sink[i] = sink[j])

\* The same call was made twice, and wrote a context section both times.
C8_Witness ==
    \E i, j \in LogCalls :
        /\ i < j
        /\ hist[i] = hist[j]
        /\ sink[i] = sink[j]
        /\ Len(ExpectedPairs(hist[i].keys, hist[i].ctx)) = 2

(***************************************************************************)
(* C9: after c constructions and n logging calls the sink holds exactly    *)
(* c + n records, also when the context is nil or no key resolves.         *)
(***************************************************************************)
C9_OneRecordPerCall ==
    Len(sink) = Cardinality(Constructions) + Cardinality(LogCalls)

C9_Witness ==
    /\ Len(sink) = 3
    /\ Cardinality(Constructions) = 1
    /\ \E i, j \in LogCalls :
          /\ hist[i].ctx.isNil /\ Len(hist[i].keys) = 2
          /\ ~hist[j].ctx.isNil /\ hist[j].ctx.chain # <<>>
          /\ NothingExtracted(hist[j])

(***************************************************************************)
(* C10: under every interleaving of the callers the sink is a sequence of  *)
(* whole lines, one per completed call, each the complete line of its own  *)
(* call; a call in flight holds the line of its own arguments.             *)
(***************************************************************************)
WholeLine(h) ==
    IF IsLog(h)
    THEN Base(h) \o (IF NothingExtracted(h) THEN <<>>
                     ELSE <<" ", "{">> \o ExpectedSection(h.keys, h.ctx) \o <<"}">>)
    ELSE ExpectedAnnouncement(h.keys)

C10_WholeLinesOnly ==
    /\ Len(sink) = Len(hist)
    /\ \A i \in 1..Len(hist) : i <= Len(sink) /\ sink[i] = WholeLine(hist[i])
    /\ \A p \in Procs : pc[p] \in {"Print", "Printf"} => frame[p].out = WholeLine(frame[p])

\* Two callers are inside LogWithColor of the same logger at once, each
\* with a line of its own still to write.
C10_Witness ==
    /\ pc[1] = "Print" /\ pc[2] = "Print"
    /\ frame[1].logger = frame[2].logger
    /\ frame[1].out # frame[2].out
    /\ Len(frame[1].out) > Len(Base(frame[1]))
    /\ Len(sink) = 1

(***************************************************************************)
(* C11: the key list of a Logger is fixed at construction: every later     *)
(* logging call extracts the keys that were passed to NewLogger, also      *)
(* after the caller has stored into the slice it passed.                   *)
(***************************************************************************)
PassedKeys(l) == hist[ConstructionOf(l)].keys

C11_KeysAreThosePassed ==
    \A i \in LogCalls :
        /\ i <= Len(sink)
        /\ hist[i].keys = PassedKeys(hist[i].logger)
        /\ sink[i] = WholeLine([hist[i] EXCEPT !.keys = PassedKeys(hist[i].logger)])

(***************************************************************************)
(* C12: a logger built with nil and a logger built with an empty list      *)
(* behave alike: the same announcement and, for every severity, context    *)
(* and message, the same line, which depends on neither; the list is       *)
(* stored as passed (nil stays nil, empty stays empty and not nil).        *)
(***************************************************************************)
C12_NilAndEmptyAlike ==
    /\ \A i, j \in Constructions :
          (hist[i].passed.len = 0 /\ hist[j].passed.len = 0) =>
              (i <= Len(sink) /\ j <= Len(sink) /\ sink[i] = sink[j])
    /\ \A i \in Constructions : hist[i].service.contextKeys = hist[i].passed
    /\ \A l \in 1..Len(loggers) :
          loggers[l].contextKeys = hist[ConstructionOf(l)].passed
    /\ \A i \in LogCalls :
          hist[ConstructionOf(hist[i].logger)].passed.len = 0 =>
              (i <= Len(sink) /\ sink[i] = Base(hist[i]))

\* Both kinds of logger were built, their announcements are equal, the
\* stored lists are nil and empty, and the one built with an empty list has
\* logged a context that holds a value.
C12_Witness ==
    /\ Len(loggers) = 2
    /\ loggers[1].contextKeys = NilSlice
    /\ loggers[2].contextKeys.arr # 0 /\ loggers[2].contextKeys.len = 0
    /\ sink[1] = sink[2]
    /\ \E i \in LogCalls :
          /\ hist[i].logger = 2
          /\ Resolves(hist[i].ctx, <<"request_id">>)
          /\ sink[i] = <<"\\033", "[", "3", "7", "m", "[", "INFO", "]",
                         "\\033", "[", "0", "m", " ", "test message">>

(***************************************************************************)
(* C13: a logging call changes nothing but the sink: neither step of Info, *)
(* Success or Error changes the configured key list of any Logger, and the *)
(* context the caller has after the call is the context it passed.         *)
(***************************************************************************)
Enters(p) == pc[p] = "idle" /\ pc'[p] \in {"Print", "panic"}

Returns(p) == pc[p] = "Print" /\ pc'[p] = "idle"

C13_LoggingCallsOnlyWrite ==
    [][\A p \in Procs :
          (Enters(p) \/ Returns(p)) =>
              /\ heap' = heap
              /\ loggers' = loggers
              /\ \A q \in Procs \ {p} : pc'[q] = pc[q] /\ frame'[q] = frame[q]
              /\ Enters(p) => (sink' = sink /\ hist' = hist)
              /\ Returns(p) =>
                    /\ Len(hist') = Len(hist) + 1
                    /\ hist'[Len(hist')].ctx = frame[p].ctx
                    /\ hist'[Len(hist')].keys = frame[p].keys
                    /\ SubSeq(sink', 1, Len(sink)) = sink
                    /\ SubSeq(hist', 1, Len(hist)) = hist]_vars

\* A call has extracted two pairs, and the logger still holds the keys it
\* was built with.
C13_Witness ==
    \E i \in LogCalls :
        /\ Len(ExpectedPairs(hist[i].keys, hist[i].ctx)) = 2
        /\ Len(sink[i]) > Len(Base(hist[i]))
        /\ Elems(loggers[hist[i].logger].contextKeys) = hist[i].keys
        /\ hist[i].keys = PassedKeys(hist[i].logger)
        /\ hist[i].ctx.chain =
              <<[key |-> <<"request_id">>, val |-> StrVal(<<"abc123">>)],
                [key |-> <<"user_id">>, val |-> IntVal(42)]>>

(***************************************************************************)
(* C14: a configured key whose value is defined and prints as the empty    *)
(* string is present: the section holds "key=" with nothing after the "="  *)
(* but the separator or the closing brace, so the section is not empty.    *)
(***************************************************************************)
EmptyString == [kind |-> "string", s |-> <<>>]

C14_EmptyValueIsPresent ==
    \A i \in LogCalls :
        \A k \in Range(hist[i].keys) :
            (~hist[i].ctx.isNil /\ ValueOf(hist[i].ctx, k) = EmptyString) =>
                /\ i <= Len(sink)
                /\ LET section == AfterMessage(i)
                   IN  /\ Len(section) >= 5
                       /\ section[1] = " " /\ section[2] = "{"
                       /\ section[Len(section)] = "}"
                       /\ \E j \in 3..(Len(section) - 2) :
                             /\ section[j] = k[1]
                             /\ section[j + 1] = "="
                             /\ section[j + 2] \in {",", "}"}

\* The only key that resolves has the empty string for value.
C14_Witness ==
    \E i \in LogCalls :
        /\ hist[i].keys = <<<<"request_id">>, <<"user_id">>>>
        /\ hist[i].ctx.chain = <<[key |-> <<"request_id">>, val |-> EmptyString]>>
        /\ sink[i] = <<"\\033", "[", "3", "2", "m", "[", "SUCCESS", "]",
                       "\\033", "[", "0", "m", " ", "test message", " ", "{",
                       "request_id", "=", "}">>

(***************************************************************************)
(* C17: a key that occurs several times in the key list is rendered once   *)
(* per occurrence, at that occurrence's place: the section has as many     *)
(* pairs as the key list has entries that resolve.                         *)
(***************************************************************************)
\* The entries of the key list that resolve, by their position in it.
ResolvingEntries(h) ==
    IF h.ctx.isNil THEN {}
    ELSE {j \in 1..Len(h.keys) : Resolves(h.ctx, h.keys[j])}

\* The positions of the section at which a pair starts: those that hold a
\* key followed by "=".
PairStarts(section) ==
    {j \in 1..(Len(section) - 1) :
        /\ <<section[j]>> \in KeyNames
        /\ section[j + 1] = "="
        /\ section[j - 1] \in {"{", " "}}

\* The n-th smallest member of a set of numbers.
Nth(S, n) == CHOOSE x \in S : Cardinality({y \in S : y <= x}) = n

C17_OnePairPerResolvingEntry ==
    \A i \in LogCalls :
        /\ i <= Len(sink)
        /\ LET section == AfterMessage(i)
               entries == ResolvingEntries(hist[i])
               starts == PairStarts(section)
           IN  /\ Cardinality(starts) = Cardinality(entries)
               /\ \A n \in 1..Cardinality(entries) :
                     <<section[Nth(starts, n)]>> = hist[i].keys[Nth(entries, n)]

\* The key list holds user_id twice and the context gives it one value.
C17_Witness ==
    \E i \in LogCalls :
        /\ hist[i].keys = <<<<"user_id">>, <<"user_id">>>>
        /\ hist[i].ctx.chain = <<[key |-> <<"user_id">>, val |-> IntVal(42)]>>
        /\ AfterMessage(i) = <<" ", "{", "user_id", "=", "4", "2", ",", " ",
                               "user_id", "=", "4", "2", "}">>

(***************************************************************************)
(* C18: for the same logger, context and message the lines of Info,        *)
(* Success and Error differ only in the color code and the level label:    *)
(* each line is its own color and bracketed label followed by a text that  *)
(* starts with the reset code, a space and the message, and that text is   *)
(* the same for the three.                                                 *)
(***************************************************************************)
\* <color>[<LEVEL>
ColorAndLabel(op) == ColorOf(op) \o <<"[">> \o LabelOf(op) \o <<"]">>

\* The line of record i from the reset code onward.
FromReset(i) == SubSeq(sink[i], Len(ColorAndLabel(hist[i].op)) + 1, Len(sink[i]))

SameCallButSeverity(i, j) ==
    /\ hist[i].logger = hist[j].logger
    /\ hist[i].keys = hist[j].keys
    /\ hist[i].ctx = hist[j].ctx
    /\ hist[i].message = hist[j].message
    /\ hist[i].op # hist[j].op

C18_SeveritiesDifferInColorAndLabel ==
    \A i \in LogCalls :
        /\ i <= Len(sink)
        /\ sink[i] = ColorAndLabel(hist[i].op) \o FromReset(i)
        /\ SubSeq(FromReset(i), 1, Len(colorReset) + 1 + Len(hist[i].message))
               = colorReset \o <<" ">> \o hist[i].message
        /\ \A j \in LogCalls :
               SameCallButSeverity(i, j) => FromReset(i) = FromReset(j)

\* Info and Error on the same logger with the same context and message,
\* the lines carrying a context section.
C18_Witness ==
    \E i, j \in LogCalls :
        /\ SameCallButSeverity(i, j)
        /\ hist[i].op = "Info" /\ hist[j].op = "Error"
        /\ hist[i].ctx.chain = <<[key |-> <<"user_id">>, val |-> IntVal(42)]>>
        /\ sink[i] = colorWhite \o <<"[", "INFO", "]">> \o FromReset(j)
        /\ FromReset(j) = <<"\\033", "[", "0", "m", " ", "test message", " ", "{",
                            "user_id", "=", "4", "2", "}">>

(***************************************************************************)
(* C16: a logging call is synchronous.  The step by which a call returns   *)
(* is the step that puts its line at the end of the sink, and no step      *)
(* removes or moves a line, so the sink holds one line per returned call   *)
(* and the lines of one caller, who makes a call only after the one before *)
(* has returned, are in the order of the calls.  A call is made on a       *)
(* logger that was returned, so the announcement of the logger is in the   *)
(* sink before the call starts, and before the line of the call.           *)
(***************************************************************************)
ConstructionReturns(p) == pc[p] = "Printf" /\ pc'[p] = "idle"

C16_LineInSinkOnReturn ==
    [][/\ \A p \in Procs :
             (Returns(p) \/ ConstructionReturns(p)) =>
                 sink' = Append(sink, frame[p].out)
       /\ Len(sink') >= Len(sink)
       /\ SubSeq(sink', 1, Len(sink)) = sink
       /\ Len(sink') = Len(hist')
       /\ \A p \in Procs :
             Enters(p) =>
                 /\ \A q \in Procs : q # p => (pc'[q] = pc[q] /\ frame'[q] = frame[q])
                 /\ frame'[p].logger \in 1..Len(loggers)
                 /\ ConstructionOf(frame'[p].logger) <= Len(sink)
                 /\ sink[ConstructionOf(frame'[p].logger)]
                        = ExpectedAnnouncement(hist[ConstructionOf(frame'[p].logger)].keys)
       /\ (\A i \in LogCalls : ConstructionOf(hist[i].logger) < i)']_vars

\* A logger and two calls made on it one after the other: the announcement,
\* then the line of the first call, then the line of the second.
C16_Witness ==
    /\ \A p \in Procs : pc[p] = "idle"
    /\ Len(sink) = 3
    /\ hist[1].op = "NewLogger"
    /\ hist[1].keys = <<<<"request_id">>>>
    /\ sink[1] = ExpectedAnnouncement(hist[1].keys)
    /\ hist[2].op = "Info" /\ hist[3].op = "Error"
    /\ hist[2].message = <<"test message">>
    /\ hist[3].message = <<"{", "%", "s", "}">>
    /\ sink[2] = WholeLine(hist[2])
    /\ sink[3] = WholeLine(hist[3])
    /\ sink[2] # sink[3]

(***************************************************************************)
(* C15: the message is opaque text for every severity.  The line is the    *)
(* color, label, reset and a space, then the message as it was passed,     *)
(* then the context section, and what stands before and after the message  *)
(* is the same whatever the message: the empty message and a message that  *)
(* looks like a format are written as they are.                            *)
(***************************************************************************)
\* <color>[<LEVEL>]<reset> and the space
BeforeMessage(op) == ColorAndLabel(op) \o colorReset \o <<" ">>

\* The part of line i at the place of the message.
AtMessage(i) ==
    SubSeq(sink[i], Len(BeforeMessage(hist[i].op)) + 1,
           Len(BeforeMessage(hist[i].op)) + Len(hist[i].message))

C15_MessageVerbatim ==
    \A i \in LogCalls :
        /\ i <= Len(sink)
        /\ sink[i] = BeforeMessage(hist[i].op) \o hist[i].message \o AfterMessage(i)
        /\ AtMessage(i) = hist[i].message
        /\ AfterMessage(i) =
               (IF NothingExtracted(hist[i]) THEN <<>>
                ELSE <<" ", "{">> \o ExpectedSection(hist[i].keys, hist[i].ctx) \o <<"}">>)
        /\ \A j \in LogCalls :
               (hist[j].op = hist[i].op /\ hist[j].keys = hist[i].keys
                    /\ hist[j].ctx = hist[i].ctx) =>
                   AfterMessage(j) = AfterMessage(i)

\* The empty message and a message that reads as a format, each on a line
\* with a context section.
C15_Witness ==
    \E i, j \in LogCalls :
        /\ hist[i].message = <<>>
        /\ hist[j].message = <<"{", "user_id", "=", "%", "s", "}">>
        /\ sink[i] = <<"\\033", "[", "3", "7", "m", "[", "INFO", "]",
                       "\\033", "[", "0", "m", " ", " ", "{", "user_id", "=",
                       "4", "2", "}">>
        /\ sink[j] = <<"\\033", "[", "3", "1", "m", "[", "ERROR", "]",
                       "\\033", "[", "0", "m", " ", "{", "user_id", "=", "%", "s",
                       "}", " ", "{", "user_id", "=", "4", "2", "}">>

====
